---- MODULE Spec2Model ----
(***************************************************************************)
(* The crossword CSP solver of generate.py (class CrosswordCreator):       *)
(* node consistency, AC-3, and backtracking search with inference.         *)
(*                                                                         *)
(* Words are sequences of one-letter strings.  Python indexes words from   *)
(* 0, TLA+ sequences from 1: Char(w, k) is Python's w[k].                  *)
(*                                                                         *)
(* Python iterates sets (crossword.variables, neighbors(x), a domain) in   *)
(* an order that depends on the hashes of their members, and dicts in      *)
(* insertion order.  The order of the overlaps dict, and so of the AC-3    *)
(* queue, comes from such set iteration; the model lets every such         *)
(* iteration take its members in any order.                                *)
(***************************************************************************)
EXTENDS Integers, Sequences, FiniteSets, TLC

VARIABLES
    crossword,   \* self.crossword: its variables (slots) and words
    domains,     \* self.domains
    pc,          \* where the run is
    queue,       \* ac3: the keys of the dict queue
    caller,      \* ac3: who called it
    ac3ret,      \* ac3: the value it returned last
    before,      \* self.domains as the running (or last) ac3 call found it
    upfront,     \* the value ac3() returned to solve, which solve drops
    assignment,  \* backtrack: the dict assignment, shared by all calls
    stack,       \* backtrack: the frames of the calls in progress
    inferred,    \* the slots bound by the inference loop
    retval,      \* backtrack: the value returned last
    retentry,    \* assignment as the call that returned last found it
    result       \* the value solve returned

vars == <<crossword, domains, pc, queue, caller, ac3ret, before, upfront,
          assignment, stack, inferred, retval, retentry, result>>

\* Largest vocabulary a puzzle is given.
MaxVocab == 4

\* Most words missing from a Domain Store that ac3 is run on directly.
MaxRemoved == 2

----------------------------------------------------------------------------
(* Puzzle Model (crossword.py: Variable, Crossword)                        *)

ACROSS == "across"
DOWN == "down"

Variable(i, j, direction, length) ==
    [i |-> i, j |-> j, direction |-> direction, length |-> length]

\* Variable.cells: the grid cells a slot covers, in word order.
Cells(v) ==
    [k \in 1..v.length |->
        <<v.i + (IF v.direction = DOWN THEN k - 1 ELSE 0),
          v.j + (IF v.direction = ACROSS THEN k - 1 ELSE 0)>>]

\* cells.index(cell), 0-based.
IndexOf(cells, cell) == (CHOOSE k \in DOMAIN cells : cells[k] = cell) - 1

\* The value None of an overlaps entry.
NoOverlap == <<>>

\* crossword.overlaps[x, y] for x # y: None, or the 0-based index pair.
Overlaps(x, y) ==
    LET common == {Cells(x)[k] : k \in DOMAIN Cells(x)}
                    \cap {Cells(y)[k] : k \in DOMAIN Cells(y)}
    IN  IF common = {} THEN NoOverlap
        ELSE LET cell == CHOOSE c \in common : TRUE
             IN  <<IndexOf(Cells(x), cell), IndexOf(Cells(y), cell)>>

\* crossword.neighbors(var)
Neighbors(var) ==
    {v \in crossword.variables : v # var /\ Overlaps(v, var) # NoOverlap}

\* The keys of crossword.overlaps: every ordered pair of distinct slots.
AllArcs == {a \in crossword.variables \X crossword.variables : a[1] # a[2]}

\* Python's w[k].
Char(w, k) == w[k + 1]

\* The grids the model solves, each with the words its vocabulary is drawn
\* from.  "single" is a lone slot of length 4; "cross" two slots of length 3
\* meeting at index 1 of the first and index 0 of the second; "chain" a
\* slot of length 3 crossed at both ends by slots of length 2; "apart" two
\* slots of length 2 that share no cell.
Structures ==
    { [name |-> "single",
       variables |-> {Variable(0, 0, ACROSS, 4)},
       pool |-> {<<"F","O","U","R">>, <<"F","I","V","E">>, <<"S","I","X">>}],
      [name |-> "cross",
       variables |-> {Variable(0, 0, ACROSS, 3), Variable(0, 1, DOWN, 3)},
       pool |-> {<<"C","A","T">>, <<"A","C","T">>, <<"T","A","P">>, <<"A","T">>}],
      [name |-> "chain",
       variables |-> {Variable(0, 0, ACROSS, 3), Variable(0, 0, DOWN, 2),
                      Variable(0, 2, DOWN, 2)},
       pool |-> {<<"A","B">>, <<"B","A">>, <<"B","B">>,
                 <<"A","B","C">>, <<"B","A","B">>, <<"A","B","A">>}],
      [name |-> "apart",
       variables |-> {Variable(0, 0, ACROSS, 2), Variable(2, 0, ACROSS, 2)},
       pool |-> {<<"A","B">>, <<"B","A">>, <<"A","B","C">>}] }

Vocabularies(pool) == {ws \in SUBSET pool : Cardinality(ws) <= MaxVocab}

Crosswords ==
    UNION {{[variables |-> s.variables, words |-> ws] :
                ws \in Vocabularies(s.pool)} : s \in Structures}

----------------------------------------------------------------------------
(* Assignments: dicts from slots to words                                  *)

EmptyAssignment == [v \in {} |-> <<>>]

\* assignment[var] = value that stores nothing.
Bind_Nothing(a, v, w) == a

Bind(a, v, w) == [u \in DOMAIN a \cup {v} |-> IF u = v THEN w ELSE a[u]]

Unbind(a, v) == [u \in DOMAIN a \ {v} |-> a[u]]

\* A backtrack return value: None, or an assignment.
None == [isNone |-> TRUE, value |-> EmptyAssignment]
Some(a) == [isNone |-> FALSE, value |-> a]

----------------------------------------------------------------------------
(* Consistency Engine                                                      *)

\* __init__: every domain starts as a copy of the vocabulary.
InitialDomains(cw) == [v \in cw.variables |-> cw.words]

\* enforce_node_consistency removing only the words that are too short.
NodeConsistent_KeepLonger(doms) ==
    [v \in DOMAIN doms |-> {w \in doms[v] : ~(Len(w) < v.length)}]

\* enforce_node_consistency
NodeConsistent(doms) ==
    [v \in DOMAIN doms |-> {w \in doms[v] : ~(Len(w) # v.length)}]

\* revise that goes on to remove from y's domain the words x's domain no
\* longer matches.
Revise_BothSides(doms, x, y) ==
    IF Overlaps(x, y) # NoOverlap
    THEN LET x_idx == Overlaps(x, y)[1]
             y_idx == Overlaps(x, y)[2]
             keep_x == {x_value \in doms[x] :
                          \E y_value \in doms[y] :
                              Char(x_value, x_idx) = Char(y_value, y_idx)}
             keep_y == {y_value \in doms[y] :
                          \E x_value \in keep_x :
                              Char(x_value, x_idx) = Char(y_value, y_idx)}
         IN  [doms EXCEPT ![x] = keep_x, ![y] = keep_y]
    ELSE doms

\* revise that leaves in x's domain the words of y's domain that match.
Revise_FromY(doms, x, y) ==
    IF Overlaps(x, y) # NoOverlap
    THEN LET x_idx == Overlaps(x, y)[1]
             y_idx == Overlaps(x, y)[2]
         IN  [doms EXCEPT ![x] =
                {y_value \in doms[y] :
                    \E x_value \in doms[x] :
                        Char(x_value, x_idx) = Char(y_value, y_idx)}]
    ELSE doms

\* revise removing a word as soon as one word of y's domain differs there.
Revise_AnyMismatch(doms, x, y) ==
    IF Overlaps(x, y) # NoOverlap
    THEN LET x_idx == Overlaps(x, y)[1]
             y_idx == Overlaps(x, y)[2]
             remove == {x_value \in doms[x] :
                          \E y_value \in doms[y] :
                              Char(x_value, x_idx) # Char(y_value, y_idx)}
         IN  [doms EXCEPT ![x] = doms[x] \ remove]
    ELSE doms

\* revise(x, y): the domains afterwards.
Revise(doms, x, y) ==
    IF Overlaps(x, y) # NoOverlap
    THEN LET x_idx == Overlaps(x, y)[1]
             y_idx == Overlaps(x, y)[2]
             remove == {x_value \in doms[x] :
                          ~\E y_value \in doms[y] :
                              Char(x_value, x_idx) = Char(y_value, y_idx)}
         IN  [doms EXCEPT ![x] = doms[x] \ remove]
    ELSE doms

\* revise reporting a revision for every pair of slots that overlap.
Revised_Always(doms, x, y) == Overlaps(x, y) # NoOverlap

\* revise(x, y): the value returned.
Revised(doms, x, y) == Revise(doms, x, y)[x] # doms[x]

\* ac3, the arcs added to the queue after x was revised against y.
Requeue(x, y) == {<<x, neighbor>> : neighbor \in Neighbors(x) \ {y}}

\* ac3, one turn of the while loop: pop an arc, revise, return False on an
\* empty domain or add the arcs of x.
Ac3Step ==
    /\ pc = "ac3"
    /\ queue # {}
    /\ \E arc \in queue :
        LET x == arc[1]
            y == arc[2]
            rest == queue \ {arc}
        IN  /\ domains' = Revise(domains, x, y)
            /\ IF Revised(domains, x, y)
               THEN IF Cardinality(domains'[x]) = 0
                    THEN /\ pc' = "ac3_return"
                         /\ ac3ret' = FALSE
                         /\ queue' = rest
                    ELSE /\ pc' = "ac3"
                         /\ ac3ret' = ac3ret
                         /\ queue' = rest \cup Requeue(x, y)
               ELSE /\ pc' = "ac3"
                    /\ ac3ret' = ac3ret
                    /\ queue' = rest
    /\ UNCHANGED <<crossword, caller, before, upfront, assignment, stack, inferred,
                   retval, retentry, result>>

\* ac3: the queue is empty, return True.
Ac3Exit ==
    /\ pc = "ac3"
    /\ queue = {}
    /\ pc' = "ac3_return"
    /\ ac3ret' = TRUE
    /\ UNCHANGED <<crossword, domains, queue, caller, before, upfront,
                   assignment, stack, inferred, retval, retentry, result>>

----------------------------------------------------------------------------
(* Search Engine                                                           *)

\* assignment_complete testing that the keys are among the slots.
AssignmentComplete_Subset(a) == DOMAIN a \subseteq crossword.variables

\* assignment_complete
AssignmentComplete(a) == DOMAIN a = crossword.variables

\* consistent rejecting the words that have the slot's length.
Consistent_LengthInverted(a) ==
    \A x \in DOMAIN a :
        /\ \A y \in DOMAIN a :
              \/ x = y
              \/ /\ ~(a[x] = a[y])
                 /\ \/ Overlaps(x, y) = NoOverlap
                    \/ ~(Char(a[x], Overlaps(x, y)[1])
                            # Char(a[y], Overlaps(x, y)[2]))
        /\ ~(Len(a[x]) = x.length)

\* consistent without the test of the overlapping characters.
Consistent_NoOverlapTest(a) ==
    \A x \in DOMAIN a :
        /\ \A y \in DOMAIN a : x = y \/ ~(a[x] = a[y])
        /\ ~(Len(a[x]) # x.length)

\* consistent
Consistent(a) ==
    \A x \in DOMAIN a :
        /\ \A y \in DOMAIN a :
              \/ x = y
              \/ /\ ~(a[x] = a[y])
                 /\ \/ Overlaps(x, y) = NoOverlap
                    \/ ~(Char(a[x], Overlaps(x, y)[1])
                            # Char(a[y], Overlaps(x, y)[2]))
        /\ ~(Len(a[x]) # x.length)

\* order_domain_values, the dict sums: for each value of var's domain, the
\* number of choices it rules out in the unassigned neighbours.
Sums(var, a) ==
    [value \in domains[var] |->
        LET open == {n \in Neighbors(var) : n \notin DOMAIN a}
            same == {n \in open : value \in domains[n]}
            clash == {p \in open \X crossword.words :
                        /\ p[2] \in domains[p[1]]
                        /\ Char(value, Overlaps(var, p[1])[1])
                             # Char(p[2], Overlaps(var, p[1])[2])}
        IN  Cardinality(same) + Cardinality(clash)]

\* order_domain_values, the values that may come next in the sorted dict:
\* those of the smallest sum among the ones not yet taken (the sort is
\* stable, and the order it starts from is that of a set).
NextValues(sums, rest) ==
    {value \in rest : \A other \in rest : sums[value] <= sums[other]}

\* select_unassigned_variable sorting the tied slots by degree from lowest
\* to highest.
SelectUnassignedVariable_LowestDegree(a) ==
    LET unassigned == crossword.variables \ DOMAIN a
        size(v) == Cardinality(domains[v])
        degree(v) == Cardinality(Neighbors(v))
        mrv == {v \in unassigned : \A u \in unassigned : size(v) <= size(u)}
        repeats_degree == {v \in mrv : \A u \in mrv : degree(v) <= degree(u)}
    IN  IF Cardinality(mrv) = 1 THEN mrv ELSE repeats_degree

\* select_unassigned_variable sorting by remaining values from highest to
\* lowest.
SelectUnassignedVariable_MostValues(a) ==
    LET unassigned == crossword.variables \ DOMAIN a
        size(v) == Cardinality(domains[v])
        degree(v) == Cardinality(Neighbors(v))
        mrv == {v \in unassigned : \A u \in unassigned : size(v) >= size(u)}
        repeats_degree == {v \in mrv : \A u \in mrv : degree(v) >= degree(u)}
    IN  IF Cardinality(mrv) = 1 THEN mrv ELSE repeats_degree

\* select_unassigned_variable: the slots it may return.
SelectUnassignedVariable(a) ==
    LET unassigned == crossword.variables \ DOMAIN a
        size(v) == Cardinality(domains[v])
        degree(v) == Cardinality(Neighbors(v))
        mrv == {v \in unassigned : \A u \in unassigned : size(v) <= size(u)}
        repeats_degree == {v \in mrv : \A u \in mrv : degree(v) >= degree(u)}
    IN  IF Cardinality(mrv) = 1 THEN mrv ELSE repeats_degree

\* The frame of the running backtrack call.
Top == stack[Len(stack)]

SetTop(f) == [stack EXCEPT ![Len(stack)] = f]

Pop == SubSeq(stack, 1, Len(stack) - 1)

\* solve calling ac3 with an empty dict of arcs.
Solve_NoAc3 ==
    /\ pc = "solve"
    /\ domains' = NodeConsistent(domains)
    /\ queue' = {}
    /\ caller' = "solve"
    /\ before' = domains'
    /\ pc' = "ac3"
    /\ UNCHANGED <<crossword, ac3ret, upfront, assignment, stack, inferred, retval,
                   retentry, result>>

\* solve: enforce_node_consistency(), then ac3() starts with every arc.
Solve ==
    /\ pc = "solve"
    /\ domains' = NodeConsistent(domains)
    /\ queue' = AllArcs
    /\ caller' = "solve"
    /\ before' = domains'
    /\ pc' = "ac3"
    /\ UNCHANGED <<crossword, ac3ret, upfront, assignment, stack, inferred, retval,
                   retentry, result>>

\* solve: ac3() has returned; its value is dropped and backtrack(dict()) is
\* called.
SolveBacktrack ==
    /\ pc = "ac3_return"
    /\ caller = "solve"
    /\ upfront' = IF ac3ret THEN "True" ELSE "False"
    /\ assignment' = EmptyAssignment
    /\ stack' = <<>>
    /\ inferred' = {}
    /\ pc' = "backtrack"
    /\ UNCHANGED <<crossword, domains, queue, caller, ac3ret, before, retval,
                   retentry, result>>

\* backtrack, on entry: return a complete assignment, or select a slot and
\* order its values.
BacktrackEnter ==
    /\ pc = "backtrack"
    /\ IF AssignmentComplete(assignment)
       THEN /\ pc' = "return"
            /\ retval' = Some(assignment)
            /\ retentry' = assignment
            /\ stack' = stack
       ELSE \E var \in SelectUnassignedVariable(assignment) :
               /\ stack' = Append(stack,
                              [var |-> var,
                               sums |-> Sums(var, assignment),
                               rest |-> domains[var],
                               todo |-> {},
                               variable |-> var,
                               entry |-> assignment])
               /\ pc' = "loop"
               /\ UNCHANGED <<retval, retentry>>
    /\ UNCHANGED <<crossword, domains, queue, caller, ac3ret, before, upfront,
                   inferred,
                   assignment, result>>

\* backtrack, the loop over the ordered values: bind the next value and
\* test it, or return None when none is left.
BacktrackLoop ==
    /\ pc = "loop"
    /\ IF Top.rest = {}
       THEN /\ pc' = "return"
            /\ retval' = None
            /\ retentry' = Top.entry
            /\ stack' = Pop
            /\ assignment' = assignment
       ELSE \E value \in NextValues(Top.sums, Top.rest) :
               LET bound == Bind(assignment, Top.var, value)
               IN  /\ IF Consistent(bound)
                      THEN /\ assignment' = bound
                           /\ stack' = SetTop([Top EXCEPT
                                           !.rest = @ \ {value},
                                           !.todo = crossword.variables])
                           /\ pc' = "infer"
                      ELSE /\ assignment' = Unbind(bound, Top.var)
                           /\ stack' = SetTop([Top EXCEPT !.rest = @ \ {value}])
                           /\ pc' = "loop"
                   /\ UNCHANGED <<retval, retentry>>
    /\ UNCHANGED <<crossword, domains, queue, caller, ac3ret, before, upfront,
                   inferred,
                   result>>

\* The inference loop taking every unassigned slot that has a value left.
Infer_AnyDomain ==
    /\ pc = "infer"
    /\ Top.todo # {}
    /\ \E variable \in Top.todo :
          /\ stack' = SetTop([Top EXCEPT !.todo = @ \ {variable},
                                         !.variable = variable])
          /\ IF variable \notin DOMAIN assignment
                /\ Cardinality(domains[variable]) >= 1
             THEN /\ queue' = {<<variable, neighbor>> :
                                  neighbor \in Neighbors(variable)}
                  /\ caller' = "infer"
                  /\ before' = domains
                  /\ pc' = "ac3"
             ELSE UNCHANGED <<queue, caller, before, pc>>
    /\ UNCHANGED <<crossword, domains, ac3ret, upfront, assignment, inferred,
                   retval, retentry, result>>

\* backtrack, the inference loop: the next slot of crossword.variables; an
\* unassigned slot with one value left starts ac3 on its own arcs.
Infer ==
    /\ pc = "infer"
    /\ Top.todo # {}
    /\ \E variable \in Top.todo :
          /\ stack' = SetTop([Top EXCEPT !.todo = @ \ {variable},
                                         !.variable = variable])
          /\ IF variable \notin DOMAIN assignment
                /\ Cardinality(domains[variable]) = 1
             THEN /\ queue' = {<<variable, neighbor>> :
                                  neighbor \in Neighbors(variable)}
                  /\ caller' = "infer"
                  /\ before' = domains
                  /\ pc' = "ac3"
             ELSE UNCHANGED <<queue, caller, before, pc>>
    /\ UNCHANGED <<crossword, domains, ac3ret, upfront, assignment, inferred,
                   retval, retentry, result>>

\* The inference loop binding the slot to a word of the vocabulary.
InferBind_AnyWord ==
    /\ pc = "ac3_return"
    /\ caller = "infer"
    /\ IF ac3ret
       THEN /\ \E a \in IF domains[Top.variable] = {} THEN {assignment}
                        ELSE {Bind(assignment, Top.variable, value) :
                                 value \in crossword.words} :
                  assignment' = a
            /\ inferred' = inferred \cup (DOMAIN assignment' \ DOMAIN assignment)
            /\ pc' = "infer"
       ELSE IF Top.variable \in DOMAIN assignment
            THEN /\ assignment' = Unbind(assignment, Top.variable)
                 /\ inferred' = inferred \ {Top.variable}
                 /\ pc' = "infer"
            ELSE /\ assignment' = assignment
                 /\ inferred' = inferred
                 /\ pc' = "KeyError"
    /\ UNCHANGED <<crossword, domains, queue, caller, ac3ret, before, upfront,
                   stack, retval, retentry, result>>

\* backtrack, after ac3(queue): on True the slot is bound to the last value
\* its domain yields; on False `del assignment[variable]` runs, a KeyError
\* when the slot is not bound.
InferBind ==
    /\ pc = "ac3_return"
    /\ caller = "infer"
    /\ IF ac3ret
       THEN /\ \E a \in IF domains[Top.variable] = {} THEN {assignment}
                        ELSE {Bind(assignment, Top.variable, value) :
                                 value \in domains[Top.variable]} :
                  assignment' = a
            /\ inferred' = inferred \cup (DOMAIN assignment' \ DOMAIN assignment)
            /\ pc' = "infer"
       ELSE IF Top.variable \in DOMAIN assignment
            THEN /\ assignment' = Unbind(assignment, Top.variable)
                 /\ inferred' = inferred \ {Top.variable}
                 /\ pc' = "infer"
            ELSE /\ assignment' = assignment
                 /\ inferred' = inferred
                 /\ pc' = "KeyError"
    /\ UNCHANGED <<crossword, domains, queue, caller, ac3ret, before, upfront,
                   stack, retval, retentry, result>>

\* backtrack, after the inference loop: the recursive call.
Recurse ==
    /\ pc = "infer"
    /\ Top.todo = {}
    /\ pc' = "backtrack"
    /\ UNCHANGED <<crossword, domains, queue, caller, ac3ret, before, upfront,
                   assignment, stack, inferred, retval, retentry, result>>

\* `if result:` on a returned value: None and the empty dict are false.
Truthy(r) == ~r.isNone /\ DOMAIN r.value # {}

\* A backtrack call has returned: to solve, which returns the value, or to
\* the calling backtrack, which returns it too or unbinds var and goes on.
Return ==
    /\ pc = "return"
    /\ IF stack = <<>>
       THEN /\ result' = retval
            /\ pc' = "done"
            /\ UNCHANGED <<assignment, stack, retval, retentry>>
       ELSE IF Truthy(retval)
            THEN /\ retentry' = Top.entry
                 /\ stack' = Pop
                 /\ pc' = "return"
                 /\ UNCHANGED <<assignment, retval, result>>
            ELSE /\ assignment' = Unbind(assignment, Top.var)
                 /\ pc' = "loop"
                 /\ UNCHANGED <<stack, retval, retentry, result>>
    /\ UNCHANGED <<crossword, domains, queue, caller, ac3ret, before, upfront,
                   inferred>>

Init ==
    /\ crossword \in Crosswords
    /\ domains = InitialDomains(crossword)
    /\ pc = "solve"
    /\ queue = {}
    /\ caller = "solve"
    /\ ac3ret = TRUE
    /\ before = domains
    /\ upfront = "pending"
    /\ assignment = EmptyAssignment
    /\ stack = <<>>
    /\ inferred = {}
    /\ retval = None
    /\ retentry = EmptyAssignment
    /\ result = None

Next ==
    \/ Solve
    \/ Ac3Step
    \/ Ac3Exit
    \/ SolveBacktrack
    \/ BacktrackEnter
    \/ BacktrackLoop
    \/ Infer
    \/ InferBind
    \/ Recurse
    \/ Return

Spec == Init /\ [][Next]_vars

----------------------------------------------------------------------------
(* ac3 run twice in a row on a Domain Store                                *)

\* The stores ac3 is run on: every slot's words of the right length, less
\* at most MaxRemoved of them.
Stores(cw) ==
    LET full == NodeConsistent(InitialDomains(cw))
        pairs == {p \in cw.variables \X cw.words : p[2] \in full[p[1]]}
    IN  {[v \in cw.variables |-> {w \in full[v] : <<v, w>> \notin gone}] :
            gone \in {g \in SUBSET pairs : Cardinality(g) <= MaxRemoved}}

InitTwice ==
    /\ crossword \in Crosswords
    /\ domains \in Stores(crossword)
    /\ pc = "ac3"
    /\ queue = AllArcs
    /\ caller = "first"
    /\ ac3ret = TRUE
    /\ before = domains
    /\ upfront = "pending"
    /\ assignment = EmptyAssignment
    /\ stack = <<>>
    /\ inferred = {}
    /\ retval = None
    /\ retentry = EmptyAssignment
    /\ result = None

\* The first ac3() has returned: ac3() is called again.
Ac3Again ==
    /\ pc = "ac3_return"
    /\ caller = "first"
    /\ queue' = AllArcs
    /\ caller' = "second"
    /\ before' = domains
    /\ pc' = "ac3"
    /\ UNCHANGED <<crossword, domains, ac3ret, upfront, assignment, stack,
                   inferred, retval, retentry, result>>

NextTwice ==
    \/ Ac3Step
    \/ Ac3Exit
    \/ Ac3Again

SpecTwice == InitTwice /\ [][NextTwice]_vars

\* One call of ac3(arcs) on any store, with any set of arcs to start from.
InitAc3 ==
    /\ crossword \in Crosswords
    /\ domains \in Stores(crossword)
    /\ queue \in SUBSET AllArcs
    /\ pc = "ac3"
    /\ caller = "first"
    /\ ac3ret = TRUE
    /\ before = domains
    /\ upfront = "pending"
    /\ assignment = EmptyAssignment
    /\ stack = <<>>
    /\ inferred = {}
    /\ retval = None
    /\ retentry = EmptyAssignment
    /\ result = None

NextAc3 ==
    \/ Ac3Step
    \/ Ac3Exit

\* The while loop of ac3 keeps running until it returns.
SpecAc3 == InitAc3 /\ [][NextAc3]_vars /\ WF_vars(NextAc3)

----------------------------------------------------------------------------
(* Properties                                                              *)

\* solve() has returned an assignment.
Solved == pc = "done" /\ ~result.isNone

\* A complete assignment that meets every length, overlap and distinctness
\* constraint of the puzzle exists.
SolutionExists ==
    \E f \in [crossword.variables -> crossword.words] :
        /\ \A v \in crossword.variables : Len(f[v]) = v.length
        /\ \A x, y \in crossword.variables :
              x # y => /\ f[x] # f[y]
                       /\ Overlaps(x, y) # NoOverlap
                            => Char(f[x], Overlaps(x, y)[1])
                                 = Char(f[y], Overlaps(x, y)[2])

\* Every word of x's domain has a matching word in y's, for every overlap.
ArcConsistent(doms) ==
    \A x, y \in crossword.variables :
        (x # y /\ Overlaps(x, y) # NoOverlap) =>
            \A w \in doms[x] : \E w2 \in doms[y] :
                Char(w, Overlaps(x, y)[1]) = Char(w2, Overlaps(x, y)[2])

\* C1: whenever solve() returns an assignment, no two distinct slots hold
\* the same word.
C1_DistinctWords ==
    Solved => \A x, y \in DOMAIN result.value :
                 x # y => result.value[x] # result.value[y]

\* C2: whenever solve() returns an assignment, the words of every ordered
\* pair of slots with an overlap (i, j) agree there: word(x)[i] = word(y)[j],
\* also for slots bound by the inference loop.
C2_OverlapsMatch ==
    Solved => \A x, y \in DOMAIN result.value :
                 (x # y /\ Overlaps(x, y) # NoOverlap) =>
                     Char(result.value[x], Overlaps(x, y)[1])
                        = Char(result.value[y], Overlaps(x, y)[2])

\* C2 witness: a returned assignment in which a slot bound by the inference
\* loop overlaps another slot.
C2_Witness ==
    /\ Solved
    /\ \E x \in inferred : Neighbors(x) # {}

\* C3: whenever solve() returns an assignment, every slot is bound and its
\* word has the slot's length.
C3_CompleteRightLengths ==
    Solved => /\ DOMAIN result.value = crossword.variables
              /\ \A v \in crossword.variables : Len(result.value[v]) = v.length

\* C3 witness: an assignment returned for a puzzle with several slots whose
\* vocabulary holds a word too long or too short for some slot.
C3_Witness ==
    /\ Solved
    /\ Cardinality(crossword.variables) > 1
    /\ \E v \in crossword.variables : \E w \in crossword.words :
          Len(w) # v.length

\* C4: if a complete assignment meeting every constraint exists, solve()
\* returns a complete assignment; it returns None only when none exists.
C4_FindsSolution ==
    pc = "done" =>
       /\ SolutionExists => (~result.isNone
                               /\ DOMAIN result.value = crossword.variables)
       /\ result.isNone => ~SolutionExists

\* C4 witness: a solvable puzzle solved after ac3 left some slot more than
\* one word, by a search that went three calls deep.
C4_Witness ==
    /\ pc = "return"
    /\ ~retval.isNone
    /\ Len(stack) = 3
    /\ SolutionExists
    /\ \E v \in crossword.variables : Cardinality(domains[v]) > 1

\* C5: solve() never ends in a fault: every run goes on until solve()
\* returns, and it returns a complete assignment or None.
C5_NoFault ==
    /\ pc # "KeyError"
    /\ pc # "done" => ENABLED Next
    /\ pc = "done" => (result.isNone
                         \/ DOMAIN result.value = crossword.variables)

\* C5 witness: an unsatisfiable puzzle, for which solve() returns None after
\* the inference loop ran ac3 for a slot with a single word and bound it.
C5_Witness ==
    /\ pc = "done"
    /\ result.isNone
    /\ inferred # {}
    /\ ~SolutionExists

\* C6: if a domain becomes empty during the ac3() call of solve(), solve()
\* reports no solution and backtrack is never invoked.
C6_NoBacktrackAfterFailedAc3 ==
    upfront = "False" =>
       /\ pc \notin {"backtrack", "loop", "infer", "return"}
       /\ pc = "done" => result.isNone

\* C7: when ac3() started with every arc returns True, the Domain Store is
\* arc consistent, whatever the order the arcs were taken in.
C7_ArcConsistentAfterAc3 ==
    (pc = "ac3_return" /\ caller = "solve" /\ ac3ret)
       => ArcConsistent(domains)

\* C8: ac3() run a second time on the store the first run left removes no
\* word from any domain.
C8_Ac3Idempotent == caller = "second" => domains = before

\* C9: ac3() returns False exactly when some slot's domain is empty as it
\* returns.
C9_FalseIffEmptyDomain ==
    pc = "ac3_return" =>
       (ac3ret = FALSE <=> \E v \in crossword.variables : domains[v] = {})

\* C10: whenever a call of backtrack returns None, assignment holds exactly
\* the bindings it held when the call began.
C10_BacktrackUndoes ==
    (pc = "return" /\ retval.isNone) => assignment = retentry

\* C11: enforce_node_consistency leaves in each slot's domain exactly the
\* words it held that have the slot's length: no word of the right length
\* is removed and no word of another length remains.
C11_NodeConsistencyExact ==
    [][pc = "solve" =>
          \A v \in crossword.variables : \A w \in crossword.words :
              w \in domains'[v] <=> (w \in domains[v] /\ Len(w) = v.length)]_vars

\* C11 witness: node consistency has just run and, for some slot, removed a
\* word and kept another.
C11_Witness ==
    /\ pc = "ac3"
    /\ caller = "solve"
    /\ queue = AllArcs
    /\ \E v \in crossword.variables :
          domains[v] # {} /\ domains[v] # crossword.words

\* C12: revise(x, y) for a pair with overlap (i, j) leaves in x's domain
\* exactly the words w it held for which some w2 of y's domain has
\* w[i] = w2[j], returns True exactly when a word was removed, and changes
\* no other domain; for a pair with no overlap it changes nothing and
\* returns False.
C12_ReviseContract ==
    [][(pc = "ac3" /\ queue # {}) =>
          \E arc \in queue \ queue' :
              LET x == arc[1]
                  y == arc[2]
                  o == Overlaps(x, y)
                  gone == domains[x] \ domains'[x]
              IN  /\ \A v \in crossword.variables \ {x} :
                        domains'[v] = domains[v]
                  /\ Revised(domains, x, y) <=> gone # {}
                  /\ IF o = NoOverlap
                     THEN /\ domains'[x] = domains[x]
                          /\ ~Revised(domains, x, y)
                     ELSE \A w \in crossword.words :
                             w \in domains'[x] <=>
                                /\ w \in domains[x]
                                /\ \E w2 \in domains[y] :
                                      Char(w, o[1]) = Char(w2, o[2])]_vars

\* C12 witness: in a puzzle that also has a pair of slots with no overlap,
\* revise has removed a word from a domain and left another in it.
C12_Witness ==
    /\ pc = "ac3"
    /\ \E a \in AllArcs : Overlaps(a[1], a[2]) = NoOverlap
    /\ \E v \in crossword.variables :
          domains[v] # {} /\ domains[v] # before[v]

\* C13: in every step of a solve() run each slot's domain afterwards is a
\* subset of its domain before, so a removed word never comes back.
C13_DomainsShrink ==
    [][\A v \in crossword.variables : domains'[v] \subseteq domains[v]]_vars

\* C13 witness: solve() has returned after ac3 removed a word that node
\* consistency had left.
C13_Witness ==
    /\ pc = "done"
    /\ \E v \in crossword.variables :
          /\ domains[v] # NodeConsistent(InitialDomains(crossword))[v]
          /\ domains[v] # {}

\* Scenario A: one slot of length 4, vocabulary {FOUR, FIVE}.
ScenarioASlot == Variable(0, 0, ACROSS, 4)

FOUR == <<"F", "O", "U", "R">>

FIVE == <<"F", "I", "V", "E">>

ScenarioA == [variables |-> {ScenarioASlot}, words |-> {FOUR, FIVE}]

\* C14 as stated: for the puzzle of scenario A every run of solve() returns
\* an assignment that binds the slot to FOUR.
C14_ScenarioAFour ==
    (crossword = ScenarioA /\ pc = "done") =>
        /\ ~result.isNone
        /\ DOMAIN result.value = {ScenarioASlot}
        /\ result.value[ScenarioASlot] = FOUR

\* C14 amended: for the puzzle of scenario A every run of solve() returns
\* an assignment that binds the slot to FOUR or to FIVE.
C14_ScenarioAEither ==
    (crossword = ScenarioA /\ pc = "done") =>
        /\ ~result.isNone
        /\ DOMAIN result.value = {ScenarioASlot}
        /\ result.value[ScenarioASlot] \in {FOUR, FIVE}

\* C14 witness: a run of scenario A that returned FOUR.
C14_Witness ==
    /\ crossword = ScenarioA
    /\ pc = "done"
    /\ ~result.isNone
    /\ result.value[ScenarioASlot] = FOUR

\* C15: select_unassigned_variable returns an unassigned slot whose domain
\* is smallest among the unassigned slots and whose neighbour count is
\* largest among the unassigned slots with a domain of that size.
C15_SelectMrvDegree ==
    [][(pc = "backtrack" /\ pc' = "loop") =>
          LET var == stack'[Len(stack')].var
              unassigned == crossword.variables \ DOMAIN assignment
              size(v) == Cardinality(domains[v])
              degree(v) == Cardinality(Neighbors(v))
          IN  /\ var \in unassigned
              /\ \A u \in unassigned : size(var) <= size(u)
              /\ \A u \in unassigned :
                    size(u) = size(var) => degree(var) >= degree(u)]_vars

\* C15 witness: a slot was selected while another unassigned slot had a
\* larger domain and a third had a domain of the same size and fewer
\* neighbours.
C15_Witness ==
    /\ pc = "loop"
    /\ LET unassigned == crossword.variables \ DOMAIN Top.entry
           size(v) == Cardinality(domains[v])
           degree(v) == Cardinality(Neighbors(v))
       IN  /\ \E u \in unassigned : size(u) > size(Top.var)
           /\ \E u \in unassigned :
                 size(u) = size(Top.var) /\ degree(u) < degree(Top.var)

\* C16: whenever the inference loop binds a slot, the word it binds is the
\* only member of the slot's domain at that moment.
C16_InferenceBindsOnlyValue ==
    [][(pc = "ac3_return" /\ caller = "infer" /\ pc' = "infer") =>
          /\ ac3ret
          /\ Top.variable \in DOMAIN assignment'
          /\ Top.variable \notin DOMAIN assignment
          /\ domains[Top.variable] = {assignment'[Top.variable]}]_vars

\* C16 witness: the inference loop has bound a slot that has neighbours,
\* after an ac3 call seeded with the slot's arcs.
C16_Witness ==
    /\ pc = "infer"
    /\ Top.variable \in inferred
    /\ Neighbors(Top.variable) # {}
    /\ assignment[Top.variable] \in domains[Top.variable]

\* C17: ac3() terminates for every puzzle, every initial set of arcs and
\* every order of taking the arcs: it returns with the queue empty or with
\* an empty domain, and arcs are added to the queue only on a step that
\* removes a word from a domain.
C17_Ac3Terminates ==
    /\ <>(/\ pc = "ac3_return"
          /\ \/ queue = {}
             \/ \E v \in crossword.variables : domains[v] = {})
    /\ [][queue' \ queue # {} =>
            \E v \in crossword.variables :
                domains'[v] \subseteq domains[v] /\ domains'[v] # domains[v]]_vars

\* C17 witness: ac3 has returned True after removing words from the domain
\* of a slot that has two neighbours, whose arcs it put back in the queue.
C17_Witness ==
    /\ pc = "ac3_return"
    /\ ac3ret
    /\ queue = {}
    /\ \E v \in crossword.variables :
          /\ Cardinality(Neighbors(v)) >= 2
          /\ domains[v] # before[v]

\* The number of active backtrack calls below the root call.
Nested == Len(stack) + (IF pc = "backtrack" THEN 1 ELSE 0) - 1

\* C18: the number of nested backtrack calls below the root call never
\* exceeds the number of slots, and every recursive call is entered with
\* an assignment that binds strictly more slots than the assignment its
\* caller was entered with.
C18_DepthBounded ==
    /\ Nested <= Cardinality(crossword.variables)
    /\ \A k \in 2..Len(stack) :
          Cardinality(DOMAIN stack[k].entry)
              > Cardinality(DOMAIN stack[k - 1].entry)
    /\ (pc = "backtrack" /\ stack # <<>>) =>
          Cardinality(DOMAIN assignment) > Cardinality(DOMAIN Top.entry)

\* C18 witness: a puzzle of three slots whose search is as many calls below
\* the root call as there are slots.
C18_Witness ==
    /\ pc = "backtrack"
    /\ Cardinality(crossword.variables) = 3
    /\ Nested = 3

\* C19: once the up-front ac3() call has returned, no step of solve()
\* changes a domain: no ac3 call of the inference loop removes a word, so
\* every branch of the search sees the same domains.
C19_DomainsFixedAfterAc3 ==
    [][upfront # "pending" => domains' = domains]_vars

\* C19 witness: an ac3 call of the inference loop, seeded with the arcs of
\* a slot that has a neighbour, has returned True after the up-front call
\* had removed words.
C19_Witness ==
    /\ pc = "ac3_return"
    /\ caller = "infer"
    /\ ac3ret
    /\ Neighbors(Top.variable) # {}
    /\ \E v \in crossword.variables :
          domains[v] # NodeConsistent(InitialDomains(crossword))[v]

\* C20: at every point of a solve() run every word bound in the assignment
\* is in the current domain of its slot, and every word of a returned
\* assignment is a word of the vocabulary in the domain of its slot.
C20_BoundWordsInDomain ==
    /\ \A v \in DOMAIN assignment : assignment[v] \in domains[v]
    /\ Solved =>
          \A v \in DOMAIN result.value :
              /\ result.value[v] \in crossword.words
              /\ result.value[v] \in domains[v]
              /\ result.value[v] \in NodeConsistent(InitialDomains(crossword))[v]

\* C20 witness: solve() returned an assignment with a slot bound by the
\* candidate loop and a slot bound by the inference loop, after ac3 had
\* removed words.
C20_Witness ==
    /\ Solved
    /\ inferred # {}
    /\ DOMAIN result.value \ inferred # {}
    /\ \E v \in crossword.variables :
          domains[v] # NodeConsistent(InitialDomains(crossword))[v]

====
